---- MODULE Spec2Model ----
(***************************************************************************)
(* Model of the orchestration logic of the Krafity canvas front end:       *)
(*   - VideoGenerationManager: the 2-second checker, the per-job polling   *)
(*     loops and the handling of status responses;                         *)
(*   - CanvasToolbar.handleMergeVideos: collecting the clip URLs of a      *)
(*     root-to-frame path and splicing the merged clip into the canvas;    *)
(*   - angleService: generateAngleChange with its retry over resolution    *)
(*     caps and gradioPredict with its rotation over the credentials.      *)
(* JavaScript runs every callback to completion, so one action is one      *)
(* callback or one continuation between two awaits.                        *)
(***************************************************************************)
EXTENDS Integers, Sequences, FiniteSets, TLC

(***************************************************************************)
(* Bounds of the model.                                                    *)
(***************************************************************************)
MaxJobs == 1
MaxInFlight == 2
MaxTime == 2

Jobs == 1..MaxJobs

(***************************************************************************)
(* Values of the outside world.                                            *)
(***************************************************************************)
\* HTTP statuses the job backend may answer with
HttpStatuses == {200, 201, 202, 404, 500}

\* bodies of a status response: {status:"pending"}, {status:"done",
\* video_url}, {status:"done"} without URL, {status:"error"}, and a body
\* response.json() rejects
Bodies == {"pending", "done_url", "done_nourl", "error", "invalid"}

\* the video URL the backend reports for job j ("" is the absent URL)
UrlOf(j) == j

NoArrow == [exists |-> FALSE, jobId |-> 0, status |-> "", videoUrl |-> 0,
            timer |-> 0, startTime |-> 0, lastFrameUrl |-> 0,
            endBinding |-> FALSE]

VARIABLES
  now,                \* Date.now(), in whole seconds
  arrows,             \* the arrow shapes of the page, with their meta
  frameName,          \* props.name of the frame bound to the arrow's end
  checkInterval,      \* whether the effect holds the id of a checker timer
  timers,             \* the window's active interval timers, counted per
                      \* job (0: the checker); the timers of one job run the
                      \* same callback, so only their number matters
  intervalsRef,       \* the keys of the Map jobId -> timer id; the value is
                      \* the id of the timer registered last for the job
  completedJobsRef,   \* Set of job ids
  fetching,           \* per job: status requests awaiting fetch()
  parsing,            \* per job: status responses awaiting response.json()
  doneWrites,         \* per job: writes of status done / videoUrl onto the edge
  contextExtractions, \* per job: context extractions started
  frameExtractions,   \* per job: last-frame extractions started
  frameLoads,         \* per job: last-frame extractions whose reader.onload is due
  abandoned,          \* history: the jobs whose loop took an abandon branch
                      \* and that have not been polled again or completed since
  pendingLeft,        \* scripted backend: pending answers left per job
  editorRef,          \* CanvasToolbar: whether editorRef.current is set
  nodes,              \* merge canvas: the frames, each with its incoming arrow
  selected,           \* merge canvas: the selected frame (0: none)
  isMerging,          \* CanvasToolbar: the merging flag
  mergeCall,          \* the merge request in flight (<<>>: none)
  mergeCalls,         \* the number of merge requests sent
  mergeFrom,          \* the selectedFrame captured by the running merge
  toast,              \* the last toast shown
  graph,              \* frameGraph: the number of frames the graph built by
                      \* the last reconstructGraph() knows
  HF_TOKENS,          \* angleService: the credential pool, a list of tokens
  currentTokenIndex,  \* angleService: _currentTokenIndex, the rotation cursor
  gradioClients,      \* angleService: the keys (tokens) of _gradioClients
  calls,              \* the invocations of generateAngleChange: position,
                      \* local variables and, as history, the credential
                      \* indices the running gradioPredict has attempted
                      \* (log), the outcome of its last attempt (lastRes),
                      \* whether its failures were all quota failures
                      \* (quotaOnly) and, of the invocation, the requests
                      \* sent per cap, whether its failures were all
                      \* runtime errors answered to a request (onlyOOM)
                      \* and whether its running attempt took its client
                      \* from the cache (reused)
  pure                \* an application of one of the pure functions
                      \* (clampDimensions, the placement rule, the azimuth
                      \* label): the function, its arguments and, once it
                      \* has been applied, its result

pollerVars == <<now, arrows, frameName, checkInterval, timers, intervalsRef,
                completedJobsRef, fetching, parsing,
                doneWrites, contextExtractions, frameExtractions, frameLoads>>

mergeVars == <<editorRef, nodes, selected, isMerging, mergeCall, mergeCalls,
               mergeFrom, toast, graph>>

angleVars == <<HF_TOKENS, currentTokenIndex, gradioClients, calls>>

vars == <<pollerVars, abandoned, pendingLeft, mergeVars, angleVars, pure>>

sideEffects == <<doneWrites, contextExtractions, frameExtractions>>

(***************************************************************************)
(* VideoGenerationManager                                                  *)
(***************************************************************************)
\* response.ok of the fetch API
ResponseOk(http) == http >= 200 /\ http <= 299

\* the test of the poll callback that abandons the loop
IsAbandonStatus(http) == ~ResponseOk(http) /\ http # 202 /\ http # 200

\* (variant: the arrow captured when the loop was started is used, without
\* looking it up on the page again)
HasCurrentArrowStale(j) == arrows[j] # NoArrow

\* editor.getCurrentPageShapes().find(arrow with meta.jobId === jobId)
HasCurrentArrow(j) == arrows[j].exists /\ arrows[j].jobId = j

\* the filter of the checker over the shapes of the page
PendingArrows ==
  {j \in Jobs : /\ arrows[j].exists
                /\ arrows[j].jobId # 0
                /\ arrows[j].status = "pending"
                /\ arrows[j].jobId \notin completedJobsRef}

\* (variant: the entry is deleted and the timer is left running)
StopLoopKeepsTimer(j) ==
  /\ intervalsRef' = intervalsRef \ {j}
  /\ UNCHANGED timers

\* window.clearInterval(intervalsRef.get(jobId)); intervalsRef.delete(jobId)
StopLoop(j) ==
  IF j \in intervalsRef
    THEN /\ timers' = [timers EXCEPT ![j] = @ - 1]
         /\ intervalsRef' = intervalsRef \ {j}
    ELSE UNCHANGED <<timers, intervalsRef>>

InitPoller ==
  /\ now = 1
  /\ arrows = [j \in Jobs |-> NoArrow]
  /\ frameName = [j \in Jobs |-> "Target"]
  /\ checkInterval = TRUE
  /\ timers = [j \in 0..MaxJobs |-> IF j = 0 THEN 1 ELSE 0]
  /\ intervalsRef = {}
  /\ completedJobsRef = {}
  /\ fetching = [j \in Jobs |-> 0]
  /\ parsing = [j \in Jobs |-> 0]
  /\ doneWrites = [j \in Jobs |-> 0]
  /\ contextExtractions = [j \in Jobs |-> 0]
  /\ frameExtractions = [j \in Jobs |-> 0]
  /\ frameLoads = [j \in Jobs |-> 0]
  /\ abandoned = {}

\* time passes
Tick ==
  /\ UNCHANGED <<abandoned, pendingLeft, mergeVars, angleVars, pure>>
  /\ now < MaxTime
  /\ now' = now + 1
  /\ UNCHANGED <<arrows, frameName, checkInterval, timers,
                 intervalsRef, completedJobsRef, fetching, parsing,
                 doneWrites, contextExtractions, frameExtractions, frameLoads>>

\* Canvas page, startGeneration: the arrow is created with status pending
\* and no job id; eb tells whether its end is bound to a frame
StartGeneration(a, eb) ==
  /\ UNCHANGED <<abandoned, pendingLeft, mergeVars, angleVars, pure>>
  /\ arrows[a] = NoArrow
  /\ arrows' = [arrows EXCEPT ![a] =
       [NoArrow EXCEPT !.exists = TRUE, !.status = "pending",
                       !.startTime = now, !.endBinding = eb]]
  /\ UNCHANGED <<now, frameName, checkInterval, timers,
                 intervalsRef, completedJobsRef, fetching, parsing,
                 doneWrites, contextExtractions, frameExtractions, frameLoads>>

\* Canvas page, startGeneration after POST /api/jobs/video: the job id of
\* the backend is written onto the arrow
JobAccepted(a) ==
  /\ UNCHANGED <<abandoned, pendingLeft, mergeVars, angleVars, pure>>
  /\ arrows[a].exists
  /\ arrows[a].jobId = 0
  /\ arrows' = [arrows EXCEPT ![a].jobId = a, ![a].status = "pending",
                              ![a].startTime = now]
  /\ UNCHANGED <<now, frameName, checkInterval, timers,
                 intervalsRef, completedJobsRef, fetching, parsing,
                 doneWrites, contextExtractions, frameExtractions, frameLoads>>

\* the user deletes the arrow from the canvas
DeletedArrow == [NoArrow EXCEPT !.status = "deleted"]

DeleteArrow(a) ==
  /\ UNCHANGED <<abandoned, pendingLeft, mergeVars, angleVars, pure>>
  /\ arrows[a].exists
  /\ arrows' = [arrows EXCEPT ![a] = DeletedArrow]
  /\ UNCHANGED <<now, frameName, checkInterval, timers,
                 intervalsRef, completedJobsRef, fetching, parsing,
                 doneWrites, contextExtractions, frameExtractions, frameLoads>>

\* the jobs the checker starts a polling loop for
LoopsToStart == {j \in PendingArrows : j \notin intervalsRef}

\* the callback of checkInterval
CheckerScan ==
  /\ abandoned' = abandoned \ LoopsToStart
  /\ UNCHANGED <<pendingLeft, mergeVars, angleVars, pure>>
  /\ timers[0] > 0
  /\ timers' = [j \in 0..MaxJobs |->
                  IF j \in LoopsToStart THEN timers[j] + 1 ELSE timers[j]]
  /\ intervalsRef' = intervalsRef \cup LoopsToStart
  /\ UNCHANGED <<now, arrows, frameName, checkInterval, completedJobsRef,
                 fetching, parsing, doneWrites, contextExtractions,
                 frameExtractions, frameLoads>>

\* the number of status requests of jobs 1..n that are not yet handled
RECURSIVE InFlight(_)
InFlight(n) == IF n = 0 THEN 0 ELSE fetching[n] + parsing[n] + InFlight(n - 1)

\* the callback of a pollInterval up to its first await: the status
\* request of the timer's job is sent
PollTick(j) ==
  /\ UNCHANGED <<abandoned, pendingLeft, mergeVars, angleVars, pure>>
  /\ timers[j] > 0
  /\ InFlight(MaxJobs) < MaxInFlight
  /\ fetching' = [fetching EXCEPT ![j] = @ + 1]
  /\ UNCHANGED <<now, arrows, frameName, checkInterval, timers,
                 intervalsRef, completedJobsRef, parsing, doneWrites,
                 contextExtractions, frameExtractions, frameLoads>>

\* fetch() resolves with HTTP status http: the status test of the callback
PollResponse(j, http) ==
  /\ UNCHANGED <<pendingLeft, mergeVars, angleVars, pure>>
  /\ fetching[j] > 0
  /\ fetching' = [fetching EXCEPT ![j] = @ - 1]
  /\ IF IsAbandonStatus(http)
       THEN /\ StopLoop(j)
            /\ abandoned' = abandoned \cup {j}
            /\ UNCHANGED parsing
       ELSE /\ parsing' = [parsing EXCEPT ![j] = @ + 1]
            /\ UNCHANGED <<timers, intervalsRef, abandoned>>
  /\ UNCHANGED <<now, arrows, frameName, checkInterval,
                 completedJobsRef, doneWrites, contextExtractions,
                 frameExtractions, frameLoads>>

\* fetch() rejects (network failure): the catch block swallows it
FetchFail(j) ==
  /\ UNCHANGED <<abandoned, pendingLeft, mergeVars, angleVars, pure>>
  /\ fetching[j] > 0
  /\ fetching' = [fetching EXCEPT ![j] = @ - 1]
  /\ UNCHANGED <<now, arrows, frameName, checkInterval, timers,
                 intervalsRef, completedJobsRef, parsing, doneWrites,
                 contextExtractions, frameExtractions, frameLoads>>

\* data.status === "done" && data.video_url
IsDone(body) == body = "done_url"

\* (variant: the done branch leaves the polling timer running)
DoneBranchNoStop(j) ==
  /\ completedJobsRef' = completedJobsRef \cup {j}
  /\ UNCHANGED <<timers, intervalsRef>>
  /\ arrows' = [arrows EXCEPT ![j].status = "done", ![j].videoUrl = UrlOf(j)]
  /\ doneWrites' = [doneWrites EXCEPT ![j] = @ + 1]
  /\ contextExtractions' = [contextExtractions EXCEPT ![j] = @ + 1]
  /\ IF arrows[j].endBinding
       THEN /\ frameName' = [frameName EXCEPT ![j] = "Generated Frame"]
            /\ frameExtractions' = [frameExtractions EXCEPT ![j] = @ + 1]
            /\ frameLoads' = [frameLoads EXCEPT ![j] = @ + 1]
       ELSE UNCHANGED <<frameName, frameExtractions, frameLoads>>

\* the done branch: completed set, loop, edge, context extraction and
\* last-frame extraction into the frame at the arrow's end
DoneBranch(j) ==
  /\ completedJobsRef' = completedJobsRef \cup {j}
  /\ StopLoop(j)
  /\ arrows' = [arrows EXCEPT ![j].status = "done", ![j].videoUrl = UrlOf(j)]
  /\ doneWrites' = [doneWrites EXCEPT ![j] = @ + 1]
  /\ contextExtractions' = [contextExtractions EXCEPT ![j] = @ + 1]
  /\ IF arrows[j].endBinding
       THEN /\ frameName' = [frameName EXCEPT ![j] = "Generated Frame"]
            /\ frameExtractions' = [frameExtractions EXCEPT ![j] = @ + 1]
            /\ frameLoads' = [frameLoads EXCEPT ![j] = @ + 1]
       ELSE UNCHANGED <<frameName, frameExtractions, frameLoads>>

\* Math.floor((Date.now() - startTime) / 1000) with startTime || Date.now();
\* the clock of the model counts whole seconds
ElapsedSeconds(j) ==
  LET startTime == IF arrows[j].startTime # 0 THEN arrows[j].startTime ELSE now
  IN now - startTime

\* (variant: the meta written holds the timer and the status of the edge
\* when the loop was started)
TimerBranchStale(j) ==
  /\ IF arrows[j].timer # ElapsedSeconds(j)
       THEN arrows' = [arrows EXCEPT ![j].timer = ElapsedSeconds(j),
                                     ![j].status = "pending"]
       ELSE UNCHANGED arrows
  /\ UNCHANGED <<timers, intervalsRef, completedJobsRef, frameName,
                 doneWrites, contextExtractions, frameExtractions, frameLoads>>

\* (variant: the meta written holds the timer alone)
TimerBranchBareMeta(j) ==
  /\ IF arrows[j].timer # ElapsedSeconds(j)
       THEN arrows' = [arrows EXCEPT ![j].timer = ElapsedSeconds(j),
                                     ![j].startTime = 0]
       ELSE UNCHANGED arrows
  /\ UNCHANGED <<timers, intervalsRef, completedJobsRef, frameName,
                 doneWrites, contextExtractions, frameExtractions, frameLoads>>

\* the else branch: the elapsed-seconds timer of the edge
TimerBranch(j) ==
  /\ IF arrows[j].timer # ElapsedSeconds(j)
       THEN arrows' = [arrows EXCEPT ![j].timer = ElapsedSeconds(j)]
       ELSE UNCHANGED arrows
  /\ UNCHANGED <<timers, intervalsRef, completedJobsRef, frameName,
                 doneWrites, contextExtractions, frameExtractions, frameLoads>>

\* response.json() resolves with body (or rejects): the rest of the callback
HandleBody(j, body) ==
  /\ parsing[j] > 0
  /\ parsing' = [parsing EXCEPT ![j] = @ - 1]
  /\ IF body = "invalid"
       THEN UNCHANGED <<arrows, frameName, timers, intervalsRef,
                        completedJobsRef, doneWrites, contextExtractions,
                        frameExtractions, frameLoads, abandoned>>
       ELSE IF ~HasCurrentArrow(j)
         THEN /\ StopLoop(j)
              /\ abandoned' = abandoned \cup {j}
              /\ UNCHANGED <<arrows, frameName, completedJobsRef, doneWrites,
                             contextExtractions, frameExtractions, frameLoads>>
         ELSE IF IsDone(body)
           THEN /\ DoneBranch(j)
                /\ abandoned' = abandoned \ {j}
           ELSE /\ TimerBranch(j)
                /\ UNCHANGED abandoned
  /\ UNCHANGED <<now, checkInterval, fetching>>

\* the backend answers with any body
PollBody(j, body) ==
  /\ HandleBody(j, body)
  /\ UNCHANGED <<pendingLeft, mergeVars, angleVars, pure>>

\* reader.onload of a last-frame extraction: lastFrameUrl is written onto
\* the arrow when it still exists
ReaderOnload(j) ==
  /\ UNCHANGED <<abandoned, pendingLeft, mergeVars, angleVars, pure>>
  /\ frameLoads[j] > 0
  /\ frameLoads' = [frameLoads EXCEPT ![j] = @ - 1]
  /\ IF arrows[j].exists
       THEN arrows' = [arrows EXCEPT ![j].lastFrameUrl = 1]
       ELSE UNCHANGED arrows
  /\ UNCHANGED <<now, frameName, checkInterval, timers,
                 intervalsRef, completedJobsRef, fetching, parsing,
                 doneWrites, contextExtractions, frameExtractions>>

\* (variant: the cleanup clears the map without cancelling its timers)
CleanupLeak ==
  /\ UNCHANGED <<abandoned, pendingLeft, mergeVars, angleVars, pure>>
  /\ checkInterval
  /\ checkInterval' = FALSE
  /\ timers' = [timers EXCEPT ![0] = @ - 1]
  /\ intervalsRef' = {}
  /\ completedJobsRef' = {}
  /\ UNCHANGED <<now, arrows, frameName, fetching, parsing,
                 doneWrites, contextExtractions, frameExtractions, frameLoads>>

\* the cleanup of the effect
Cleanup ==
  /\ UNCHANGED <<abandoned, pendingLeft, mergeVars, angleVars, pure>>
  /\ checkInterval
  /\ checkInterval' = FALSE
  /\ timers' = [j \in 0..MaxJobs |->
                  IF j = 0 \/ j \in intervalsRef THEN timers[j] - 1 ELSE timers[j]]
  /\ intervalsRef' = {}
  /\ completedJobsRef' = {}
  /\ UNCHANGED <<now, arrows, frameName, fetching, parsing,
                 doneWrites, contextExtractions, frameExtractions, frameLoads>>

\* the effect runs again (the editor changed): a new checker is started
Mount ==
  /\ UNCHANGED <<abandoned, pendingLeft, mergeVars, angleVars, pure>>
  /\ ~checkInterval
  /\ checkInterval' = TRUE
  /\ timers' = [timers EXCEPT ![0] = @ + 1]
  /\ UNCHANGED <<now, arrows, frameName, intervalsRef, completedJobsRef,
                 fetching, parsing, doneWrites, contextExtractions,
                 frameExtractions, frameLoads>>

(***************************************************************************)
(* Values of angleService.                                                 *)
(***************************************************************************)
MaxTokens == 3
MaxCalls == 2
MaxSide == 20
MaxVideoSide == 12

Calls == 1..MaxCalls

\* const MAX_DIMS = [1024, 768, 512]
MAX_DIMS == <<1024, 768, 512>>

\* An error is its message, kept as the set of the phrases the classifiers
\* and the callers look for in it, and the attempt of gradioPredict that
\* raised it (0: not raised by an attempt).
NoError == [msg |-> {}, at |-> 0]

\* an invocation that has not been made
IdleCall ==
  [pc |-> "idle", maxDim |-> 1, attempt |-> 0, idx |-> 0,
   lastError |-> NoError, genLastError |-> NoError, error |-> NoError,
   log |-> <<>>, lastRes |-> {}, quotaOnly |-> TRUE, startCursor |-> 0,
   requests |-> [d \in 1..Len(MAX_DIMS) |-> 0], onlyOOM |-> TRUE,
   reused |-> FALSE]

\* no pure function is being applied
IdlePure == pure = [fn |-> "", args |-> <<>>, done |-> FALSE, out |-> <<>>]

\* the module as loaded with no token configured and no call made
IdleAngle ==
  /\ HF_TOKENS = <<>>
  /\ currentTokenIndex = 0
  /\ gradioClients = {}
  /\ calls = [p \in Calls |-> IdleCall]

\* the merge canvas is left alone by the poller
IdleMerge ==
  /\ editorRef = FALSE
  /\ nodes = <<>>
  /\ selected = 0
  /\ isMerging = FALSE
  /\ mergeCall = <<>>
  /\ mergeCalls = 0
  /\ mergeFrom = 0
  /\ toast = ""
  /\ graph = 0

Init ==
  /\ InitPoller
  /\ pendingLeft = [j \in Jobs |-> 0]
  /\ IdleMerge
  /\ IdleAngle
  /\ IdlePure

Next ==
  \/ Tick
  \/ \E a \in Jobs, eb \in BOOLEAN : StartGeneration(a, eb)
  \/ \E a \in Jobs : JobAccepted(a)
  \/ \E a \in Jobs : DeleteArrow(a)
  \/ CheckerScan
  \/ \E j \in Jobs : PollTick(j)
  \/ \E j \in Jobs, http \in HttpStatuses : PollResponse(j, http)
  \/ \E j \in Jobs, body \in Bodies : PollBody(j, body)
  \/ \E j \in Jobs : FetchFail(j)
  \/ \E j \in Jobs : ReaderOnload(j)
  \/ Cleanup
  \/ Mount

Spec == Init /\ [][Next]_vars

(***************************************************************************)
(* The scenario of a backend that answers pending a finite number of       *)
(* times and then done with a video URL, with the edge kept and the        *)
(* component mounted.  Timers fire and requests are answered, so the       *)
(* steps of the poller are weakly fair.                                    *)
(***************************************************************************)
MaxPending == 1

\* the HTTP statuses of a job record
AcceptedStatuses == {200, 202}

\* the body the scripted backend answers next for job j
ScriptedAnswer(j) == IF pendingLeft[j] > 0 THEN "pending" ELSE "done_url"

ScriptedBody(j) ==
  /\ HandleBody(j, ScriptedAnswer(j))
  /\ pendingLeft' = [pendingLeft EXCEPT ![j] = IF @ > 0 THEN @ - 1 ELSE 0]
  /\ UNCHANGED <<mergeVars, angleVars, pure>>

InitLive ==
  /\ InitPoller
  /\ pendingLeft \in [Jobs -> 0..MaxPending]
  /\ IdleMerge
  /\ IdleAngle
  /\ IdlePure

NextLive ==
  \/ Tick
  \/ \E a \in Jobs, eb \in BOOLEAN : StartGeneration(a, eb)
  \/ \E a \in Jobs : JobAccepted(a)
  \/ CheckerScan
  \/ \E j \in Jobs : PollTick(j)
  \/ \E j \in Jobs, http \in AcceptedStatuses : PollResponse(j, http)
  \/ \E j \in Jobs : ScriptedBody(j)
  \/ \E j \in Jobs : ReaderOnload(j)

SpecLive ==
  /\ InitLive
  /\ [][NextLive]_vars
  /\ WF_vars(CheckerScan)
  /\ \A j \in Jobs : WF_vars(PollTick(j))
  /\ \A j \in Jobs : WF_vars(\E http \in AcceptedStatuses : PollResponse(j, http))
  /\ \A j \in Jobs : WF_vars(ScriptedBody(j))

(***************************************************************************)
(* CanvasToolbar.handleMergeVideos.  The canvas holds the frames 1..n;     *)
(* nodes[f] is the arrow that ends at frame f: the frame it starts from    *)
(* (0: no arrow ends at f) and its meta.  Frames are created after the     *)
(* frames they are drawn from, so parent < f.                              *)
(***************************************************************************)
MaxFrames == 4
MaxMerges == 1

ArrowStatuses == {"pending", "done", "error"}

\* the blob URL of a merged video
MergedUrl == 0 - 1

NoIncoming == [parent |-> 0, status |-> "", videoUrl |-> 0]

\* the arrows that can end at frame f: from an earlier frame, in any job
\* state, with the clip URL of the arrow or without one
IncomingArrows(f) ==
  {NoIncoming} \cup
  [parent : 1..(f - 1), status : ArrowStatuses, videoUrl : {0, f}]

\* frame f takes part in the graph of g frames: an arrow ends or starts at it
Connected(g, f) ==
  \/ nodes[f].parent # 0
  \/ \E c \in 1..g : nodes[c].parent = f

\* frameGraph.getFramePath(f) on the graph of g frames: the nodes from the
\* root down to f, each with the arrow that ends at it; empty when f is
\* unknown or disconnected
RECURSIVE getFramePath(_, _)
getFramePath(g, f) ==
  IF f \notin 1..g \/ ~Connected(g, f) THEN <<>>
  ELSE IF nodes[f].parent = 0 THEN <<[frameId |-> f, arrowId |-> 0]>>
  ELSE Append(getFramePath(g, nodes[f].parent), [frameId |-> f, arrowId |-> f])

\* (variant: the status of the arrow is not looked at)
HasVideoAnyStatus(a) == nodes[a].videoUrl # 0

\* videoUrl && arrow.meta?.status === "done"
HasVideo(a) == nodes[a].videoUrl # 0 /\ nodes[a].status = "done"

\* the loop over path[i], i >= 1 (the sequences of the model start at 1)
RECURSIVE CollectFrom(_, _)
CollectFrom(path, i) ==
  IF i > Len(path) THEN <<>>
  ELSE (IF path[i].arrowId # 0 /\ HasVideo(path[i].arrowId)
          THEN <<nodes[path[i].arrowId].videoUrl>> ELSE <<>>)
       \o CollectFrom(path, i + 1)

CollectVideoUrls(path) == CollectFrom(path, 2)

\* (variant: only the empty list is rejected)
TooFewVideosOnlyEmpty(videoUrls) == Len(videoUrls) < 1

\* videoUrls.length < 2
TooFewVideos(videoUrls) == Len(videoUrls) < 2

\* the canvases of n frames
RECURSIVE Canvases(_)
Canvases(n) ==
  IF n = 0 THEN {<<>>}
  ELSE {Append(c, a) : c \in Canvases(n - 1), a \in IncomingArrows(n)}

ValidationToasts ==
  {"No path found for the selected frame.",
   "No videos found in the path from root to selected frame.",
   "At least 2 videos are required for merging."}

InitMerge ==
  /\ editorRef = FALSE
  /\ nodes \in Canvases(MaxFrames)
  /\ selected = 0
  /\ isMerging = FALSE
  /\ mergeCall = <<>>
  /\ mergeCalls = 0
  /\ mergeFrom = 0
  /\ toast = ""
  /\ graph = 0

\* the editor is mounted
EditorMount ==
  /\ ~editorRef
  /\ editorRef' = TRUE
  /\ UNCHANGED <<nodes, selected, isMerging, mergeCall, mergeCalls,
                 mergeFrom, toast, graph>>
  /\ UNCHANGED <<pollerVars, abandoned, pendingLeft, angleVars, pure>>

\* the user selects frame f (0: nothing, or no frame)
SelectFrame(f) ==
  /\ selected # f
  /\ selected' = f
  /\ UNCHANGED <<editorRef, nodes, isMerging, mergeCall, mergeCalls,
                 mergeFrom, toast, graph>>
  /\ UNCHANGED <<pollerVars, abandoned, pendingLeft, angleVars, pure>>

\* handleMergeVideos up to its first await; the button is disabled while
\* isMerging
HandleMergeVideos ==
  /\ ~isMerging
  /\ IF ~editorRef
       THEN /\ toast' = "Editor not ready. Please wait a moment and try again."
            /\ UNCHANGED <<graph, isMerging, mergeCall, mergeCalls, mergeFrom>>
       ELSE /\ graph' = Len(nodes)
            /\ IF selected = 0
                 THEN /\ toast' = "Please select a frame to merge videos from."
                      /\ UNCHANGED <<isMerging, mergeCall, mergeCalls, mergeFrom>>
                 ELSE LET path == getFramePath(Len(nodes), selected)
                          videoUrls == CollectVideoUrls(path)
                      IN IF Len(path) = 0
                           THEN /\ toast' = "No path found for the selected frame."
                                /\ UNCHANGED <<isMerging, mergeCall, mergeCalls, mergeFrom>>
                         ELSE IF Len(videoUrls) = 0
                           THEN /\ toast' = "No videos found in the path from root to selected frame."
                                /\ UNCHANGED <<isMerging, mergeCall, mergeCalls, mergeFrom>>
                         ELSE IF TooFewVideos(videoUrls)
                           THEN /\ toast' = "At least 2 videos are required for merging."
                                /\ UNCHANGED <<isMerging, mergeCall, mergeCalls, mergeFrom>>
                         ELSE /\ mergeCalls < MaxMerges
                              /\ isMerging' = TRUE
                              /\ mergeCall' = videoUrls
                              /\ mergeCalls' = mergeCalls + 1
                              /\ mergeFrom' = selected
                              /\ UNCHANGED toast
  /\ UNCHANGED <<editorRef, nodes, selected>>
  /\ UNCHANGED <<pollerVars, abandoned, pendingLeft, angleVars, pure>>

\* (variant: reconstructGraph() is not called after the splice)
MergeSucceedsStaleGraph ==
  /\ mergeCall # <<>>
  /\ nodes' = Append(nodes, [parent |-> mergeFrom, status |-> "done",
                              videoUrl |-> MergedUrl])
  /\ toast' = "Merged videos!"
  /\ isMerging' = FALSE
  /\ mergeCall' = <<>>
  /\ mergeFrom' = 0
  /\ UNCHANGED <<editorRef, selected, mergeCalls, graph>>
  /\ UNCHANGED <<pollerVars, abandoned, pendingLeft, angleVars, pure>>

\* the merge request succeeds: the new frame, the arrow to it with status
\* done and the merged URL, reconstructGraph(), the success toast, finally
MergeSucceeds ==
  /\ mergeCall # <<>>
  /\ nodes' = Append(nodes, [parent |-> mergeFrom, status |-> "done",
                              videoUrl |-> MergedUrl])
  /\ graph' = Len(nodes) + 1
  /\ toast' = "Merged videos!"
  /\ isMerging' = FALSE
  /\ mergeCall' = <<>>
  /\ mergeFrom' = 0
  /\ UNCHANGED <<editorRef, selected, mergeCalls>>
  /\ UNCHANGED <<pollerVars, abandoned, pendingLeft, angleVars, pure>>

\* (variant: the flag is not reset when the request fails)
MergeFailsNoFinally ==
  /\ mergeCall # <<>>
  /\ toast' = "Failed to merge videos"
  /\ mergeCall' = <<>>
  /\ mergeFrom' = 0
  /\ UNCHANGED <<editorRef, nodes, selected, mergeCalls, graph, isMerging>>
  /\ UNCHANGED <<pollerVars, abandoned, pendingLeft, angleVars, pure>>

\* the merge request fails (response not ok, or a rejection): catch, finally
MergeFails ==
  /\ mergeCall # <<>>
  /\ toast' = "Failed to merge videos"
  /\ isMerging' = FALSE
  /\ mergeCall' = <<>>
  /\ mergeFrom' = 0
  /\ UNCHANGED <<editorRef, nodes, selected, mergeCalls, graph>>
  /\ UNCHANGED <<pollerVars, abandoned, pendingLeft, angleVars, pure>>

InitMergeSpec ==
  /\ InitPoller
  /\ pendingLeft = [j \in Jobs |-> 0]
  /\ InitMerge
  /\ IdleAngle
  /\ IdlePure

NextMerge ==
  \/ EditorMount
  \/ \E f \in 0..(MaxFrames + MaxMerges) : f <= Len(nodes) /\ SelectFrame(f)
  \/ HandleMergeVideos
  \/ MergeSucceeds
  \/ MergeFails

SpecMerge == InitMergeSpec /\ [][NextMerge]_vars

(***************************************************************************)
(* angleService: generateAngleChange and gradioPredict.  An invocation     *)
(* runs from one await to the next without interruption: the awaits are    *)
(* getImageDimensions, Client.connect (inside getGradioClient, when the    *)
(* token has no cached client) and client.predict.                         *)
(***************************************************************************)
\* HF_TOKENS.length
totalTokens == Len(HF_TOKENS)

\* HF_TOKENS[idx]; the indices of the code start at 0
TokenAt(idx) == HF_TOKENS[idx + 1]

\* the phrases isQuotaExhausted and isRuntimeOOM look for in a message
QuotaPhrase == "quota exceeded"
RuntimePhrase == "runtime error"

\* the messages a failing Client.connect or client.predict may carry:
\* with or without each of the phrases
FailureMessages == SUBSET {QuotaPhrase, RuntimePhrase}

isQuotaExhausted(err) == QuotaPhrase \in err.msg

\* new Error("No HF tokens configured. Add VITE_HF_TOKENS to your .env file.")
ConfigError == [msg |-> {"No HF tokens configured"}, at |-> 0]

\* new Error("No image returned from angle generation API")
NoImageError == [msg |-> {"No image returned"}, at |-> 0]

\* new Error("Failed to read image dimensions")
DimensionsError == [msg |-> {"Failed to read image dimensions"}, at |-> 0]

\* new Error(`All ${totalTokens} HF tokens failed. Last error: ${formatError(lastError)}`):
\* the message contains the message of lastError
AllFailedError(lastError) ==
  [msg |-> {"All HF tokens failed"} \cup lastError.msg, at |-> lastError.at]

\* (variant: every error is taken for a runtime error of the worker)
isRuntimeOOMAny(err) == TRUE

isRuntimeOOM(err) == RuntimePhrase \in err.msg

\* (variant: the cursor is not taken modulo the size of the pool)
rotateTokenNoWrap(cur) == cur + 1

\* (variant: the cursor is left where it is)
rotateTokenStuck(cur) == cur

\* _currentTokenIndex = (_currentTokenIndex + 1) % HF_TOKENS.length
rotateToken(cur) == (cur + 1) % totalTokens

\* (variant: a failure leaves the cached client in place)
EvictNothing(idx) == gradioClients

\* _gradioClients.delete(HF_TOKENS[idx])
EvictClient(idx) == gradioClients \ {TokenAt(idx)}

\* the invocation has been made and has not settled
Active(c) == c.pc \in {"dims", "connect", "predict"}

\* the promise of generateAngleChange rejects with err
Threw(c, err) == [c EXCEPT !.pc = "threw", !.error = err]

\* one pass of the for loop of gradioPredict up to its first await:
\* idx is read from the cursor, getGradioClient(idx) returns the cached
\* client (and client.predict is called) or calls Client.connect
BeginAttempt(c, cur, cache) ==
  LET idx == cur % totalTokens
      started == [c EXCEPT !.idx = idx, !.log = Append(@, idx),
                           !.lastRes = {"pending"}]
  IN IF TokenAt(idx) \in cache
       THEN [started EXCEPT !.pc = "predict", !.requests[c.maxDim] = @ + 1,
                            !.reused = TRUE]
       ELSE [started EXCEPT !.pc = "connect", !.reused = FALSE]

\* (variant: the guard of the empty pool is missing)
PoolEmptyUnchecked == FALSE

\* HF_TOKENS.length === 0
PoolEmpty == totalTokens = 0

\* (variant: the loop makes one pass more)
MoreAttemptsInclusive(c) == c.attempt <= totalTokens

\* attempt < totalTokens
MoreAttempts(c) == c.attempt < totalTokens

\* gradioPredict is entered (GradioPredict), its for loop is at its head
\* (LoopFrom), or the try of generateAngleChange has thrown err (CatchAngle):
\* the state of the invocation at its next await, or when it has settled
RECURSIVE GradioPredict(_, _, _)
RECURSIVE LoopFrom(_, _, _)
RECURSIVE CatchAngle(_, _, _, _)

GradioPredict(c, cur, cache) ==
  IF PoolEmpty
    THEN CatchAngle(c, ConfigError, cur, cache)
    ELSE LoopFrom([c EXCEPT !.attempt = 0, !.lastError = NoError,
                            !.log = <<>>, !.lastRes = {}, !.quotaOnly = TRUE,
                            !.startCursor = cur],
                  cur, cache)

LoopFrom(c, cur, cache) ==
  IF MoreAttempts(c)
    THEN BeginAttempt(c, cur, cache)
    ELSE CatchAngle(c, AllFailedError(c.lastError), cur, cache)

\* catch (err) of generateAngleChange, the next pass of its loop over
\* MAX_DIMS, and the throw after the loop
CatchAngle(c, err, cur, cache) ==
  LET caught == [c EXCEPT !.genLastError = err]
  IN IF isRuntimeOOM(err)
       THEN IF c.maxDim < Len(MAX_DIMS)
              THEN GradioPredict([caught EXCEPT !.maxDim = @ + 1], cur, cache)
              ELSE Threw(caught, caught.genLastError)
       ELSE Threw(caught, err)

\* (variant: lastError keeps the first error caught)
CaughtFirst(c, err) ==
  [c EXCEPT !.lastError = IF @ = NoError THEN err ELSE @,
            !.lastRes = err.msg,
            !.quotaOnly = @ /\ QuotaPhrase \in err.msg,
            !.attempt = @ + 1]

\* catch (err) of gradioPredict: lastError = err, and the loop goes on to
\* attempt + 1 (with continue when the quota is exhausted, by falling out
\* of the catch block otherwise)
Caught(c, err) ==
  [c EXCEPT !.lastError = err,
            !.lastRes = err.msg,
            !.quotaOnly = @ /\ QuotaPhrase \in err.msg,
            !.attempt = @ + 1]

InitAngle ==
  /\ HF_TOKENS \in {[i \in 1..n |-> i] : n \in 0..MaxTokens}
  /\ currentTokenIndex = 0
  /\ gradioClients = {}
  /\ calls = [p \in Calls |-> IdleCall]

\* generateAngleChange is called: the parameters are snapped and
\* getImageDimensions is awaited
GenerateAngleChange(p) ==
  /\ ~Active(calls[p])
  /\ calls' = [calls EXCEPT ![p] = [IdleCall EXCEPT !.pc = "dims"]]
  /\ UNCHANGED <<HF_TOKENS, currentTokenIndex, gradioClients>>
  /\ UNCHANGED <<pollerVars, abandoned, pendingLeft, mergeVars, pure>>

\* img.onload: the loop over MAX_DIMS starts and gradioPredict is called
ImageLoaded(p) ==
  /\ calls[p].pc = "dims"
  /\ calls' = [calls EXCEPT
                 ![p] = GradioPredict(@, currentTokenIndex, gradioClients)]
  /\ UNCHANGED <<HF_TOKENS, currentTokenIndex, gradioClients>>
  /\ UNCHANGED <<pollerVars, abandoned, pendingLeft, mergeVars, pure>>

\* img.onerror: getImageDimensions rejects, outside the try
ImageError(p) ==
  /\ calls[p].pc = "dims"
  /\ calls' = [calls EXCEPT ![p] = Threw(@, DimensionsError)]
  /\ UNCHANGED <<HF_TOKENS, currentTokenIndex, gradioClients>>
  /\ UNCHANGED <<pollerVars, abandoned, pendingLeft, mergeVars, pure>>

\* Client.connect resolves: the client is cached and client.predict called
ConnectOk(p) ==
  /\ calls[p].pc = "connect"
  /\ gradioClients' = gradioClients \cup {TokenAt(calls[p].idx)}
  /\ calls' = [calls EXCEPT ![p].pc = "predict",
                            ![p].requests[calls[p].maxDim] = @ + 1]
  /\ UNCHANGED <<HF_TOKENS, currentTokenIndex>>
  /\ UNCHANGED <<pollerVars, abandoned, pendingLeft, mergeVars, pure>>

\* Client.connect or client.predict rejects with message m: the catch
\* block of gradioPredict, then whatever runs up to the next await
AttemptFails(p, m) ==
  /\ calls[p].pc \in {"connect", "predict"}
  /\ LET c == calls[p]
         err == [msg |-> m, at |-> c.attempt + 1]
         cache == EvictClient(c.idx)
         cur == rotateToken(currentTokenIndex)
         seen == [c EXCEPT !.onlyOOM = @ /\ c.pc = "predict"
                                         /\ m = {RuntimePhrase}]
     IN /\ gradioClients' = cache
        /\ currentTokenIndex' = cur
        /\ calls' = [calls EXCEPT ![p] = LoopFrom(Caught(seen, err), cur, cache)]
  /\ UNCHANGED HF_TOKENS
  /\ UNCHANGED <<pollerVars, abandoned, pendingLeft, mergeVars, pure>>

\* client.predict resolves, with an output URL in the result or without
PredictOk(p, hasUrl) ==
  /\ calls[p].pc = "predict"
  /\ LET c == [calls[p] EXCEPT !.lastRes = {"ok"}]
     IN calls' = [calls EXCEPT
                    ![p] = IF hasUrl
                             THEN [c EXCEPT !.pc = "returned"]
                             ELSE CatchAngle(c, NoImageError,
                                             currentTokenIndex, gradioClients)]
  /\ UNCHANGED <<HF_TOKENS, currentTokenIndex, gradioClients>>
  /\ UNCHANGED <<pollerVars, abandoned, pendingLeft, mergeVars, pure>>

\* one invocation at a time, every outcome of the external service
NextAngle ==
  \/ GenerateAngleChange(1)
  \/ ImageLoaded(1)
  \/ ImageError(1)
  \/ ConnectOk(1)
  \/ \E m \in FailureMessages : AttemptFails(1, m)
  \/ \E hasUrl \in BOOLEAN : PredictOk(1, hasUrl)

InitAngleSpec ==
  /\ InitPoller
  /\ pendingLeft = [j \in Jobs |-> 0]
  /\ IdleMerge
  /\ InitAngle
  /\ IdlePure

SpecAngle == InitAngleSpec /\ [][NextAngle]_vars

\* every external request returns or fails
SpecAngleLive ==
  /\ SpecAngle
  /\ WF_vars(ImageLoaded(1) \/ ImageError(1))
  /\ WF_vars(ConnectOk(1) \/ \E m \in FailureMessages : AttemptFails(1, m))
  /\ WF_vars(\E m \in FailureMessages : AttemptFails(1, m)
               \/ \E hasUrl \in BOOLEAN : PredictOk(1, hasUrl))

\* overlapping invocations whose requests succeed or exhaust the quota
NextOverlap ==
  \/ \E p \in Calls : GenerateAngleChange(p)
  \/ \E p \in Calls : ImageLoaded(p)
  \/ \E p \in Calls : ConnectOk(p)
  \/ \E p \in Calls : AttemptFails(p, {QuotaPhrase})
  \/ \E p \in Calls : PredictOk(p, TRUE)

SpecOverlap == InitAngleSpec /\ [][NextOverlap]_vars

(***************************************************************************)
(* The arithmetic of JavaScript numbers (IEEE 754 binary64) on the values  *)
(* the pure functions compute with.  A positive number is its significand, *)
(* DoubleBits bits from the leading 1 down, and the exponent exp of the    *)
(* leading bit: 2^exp <= value < 2^(exp + 1).  Every operation rounds its  *)
(* exact result to the nearest such number, ties to the even significand.  *)
(***************************************************************************)
DoubleBits == 53

\* the significand is multiplied in limbs of LimbBits bits
LimbBits == DoubleBits \div 4

RECURSIVE Pow2(_)
Pow2(n) == IF n = 0 THEN 1 ELSE 2 * Pow2(n - 1)

\* 2^n modulo m, by repeated squaring
RECURSIVE Pow2Mod(_, _)
Pow2Mod(n, m) ==
  IF n = 0 THEN 1 % m
  ELSE IF n % 2 = 1 THEN (2 * Pow2Mod(n - 1, m)) % m
  ELSE (Pow2Mod(n \div 2, m) * Pow2Mod(n \div 2, m)) % m

\* the smallest k >= from with a * 2^k >= b
RECURSIVE ExpUp(_, _, _)
ExpUp(a, b, from) ==
  IF a * Pow2(from) >= b THEN from ELSE ExpUp(a, b, from + 1)

\* the bits of a natural number, leading bit first
RECURSIVE IntBits(_)
IntBits(k) == IF k = 0 THEN <<>> ELSE Append(IntBits(k \div 2), k % 2)

\* the low n bits of a natural number, leading bit first
LowBits(k, n) == [i \in 1..n |-> (k \div Pow2(n - i)) % 2]

\* the natural number of a sequence of bits
RECURSIVE BitsToInt(_)
BitsToInt(bits) ==
  IF bits = <<>> THEN 0
  ELSE 2 * BitsToInt(SubSeq(bits, 1, Len(bits) - 1)) + bits[Len(bits)]

\* bits + 1 on the same number of bits, for bits that are not all ones
IncBits(bits) ==
  LET last == CHOOSE i \in 1..Len(bits) :
                bits[i] = 0 /\ \A j \in (i + 1)..Len(bits) : bits[j] = 1
  IN [i \in 1..Len(bits) |->
        IF i < last THEN bits[i] ELSE IF i = last THEN 1 ELSE 0]

\* the significand sig at exponent exp, rounded up when up holds
Rounded(sig, exp, up) ==
  IF ~up THEN [sig |-> sig, exp |-> exp]
  ELSE IF \A i \in 1..Len(sig) : sig[i] = 1
    THEN [sig |-> [i \in 1..Len(sig) |-> IF i = 1 THEN 1 ELSE 0],
          exp |-> exp + 1]
    ELSE [sig |-> IncBits(sig), exp |-> exp]

\* a / b for positive integers a and b: the bits of the integer part, then
\* the bits of the fraction by long division, then the rounding
FDiv(a, b) ==
  LET shift == ExpUp(a, b, 0)
      whole == IntBits((a * Pow2(shift)) \div b)
      r == (a * Pow2(shift)) % b
      n == DoubleBits - Len(whole)
      frac == [i \in 1..n |-> (2 * ((r * Pow2Mod(i - 1, b)) % b)) \div b]
      rem == (r * Pow2Mod(n, b)) % b
      sig == whole \o frac
      up == \/ 2 * rem > b
            \/ 2 * rem = b /\ sig[DoubleBits] = 1
  IN Rounded(sig, Len(whole) - 1 - shift, up)

\* the integer d as a number
FInt(d) == FDiv(d, 1)

\* the bits of n * sig, for a positive integer n
MulBits(sig, n) ==
  LET limb(k) == BitsToInt(SubSeq(sig, DoubleBits - k * LimbBits + 1,
                                  DoubleBits - (k - 1) * LimbBits))
      top == BitsToInt(SubSeq(sig, 1, DoubleBits - 3 * LimbBits))
      p1 == limb(1) * n
      p2 == limb(2) * n + p1 \div Pow2(LimbBits)
      p3 == limb(3) * n + p2 \div Pow2(LimbBits)
      p4 == top * n + p3 \div Pow2(LimbBits)
  IN IntBits(p4) \o LowBits(p3, LimbBits) \o LowBits(p2, LimbBits)
       \o LowBits(p1, LimbBits)

\* n * x for a positive integer n and a number x
FMulInt(n, x) ==
  LET product == MulBits(x.sig, n)
      extra == Len(product) - DoubleBits
      sig == SubSeq(product, 1, DoubleBits)
      up == /\ extra > 0
            /\ product[DoubleBits + 1] = 1
            /\ \/ sig[DoubleBits] = 1
               \/ \E i \in (DoubleBits + 2)..Len(product) : product[i] = 1
  IN Rounded(sig, x.exp + extra, up)

\* x <= y
FLeq(x, y) ==
  \/ x.exp < y.exp
  \/ /\ x.exp = y.exp
     /\ \/ x.sig = y.sig
        \/ \E i \in 1..DoubleBits :
             /\ x.sig[i] < y.sig[i]
             /\ \A j \in 1..(i - 1) : x.sig[j] = y.sig[j]

\* Math.min(x, y)
FMin(x, y) == IF FLeq(x, y) THEN x ELSE y

\* the sign of x - y: the rounded difference of two numbers has the sign
\* of their exact difference
FSubSign(x, y) == IF x = y THEN 0 ELSE IF FLeq(x, y) THEN 0 - 1 ELSE 1

\* Math.round(x): the nearest integer, a tie going up
JsRound(x) ==
  IF x.exp < 0 - 1 THEN 0
  ELSE IF x.exp = 0 - 1 THEN 1
  ELSE BitsToInt(SubSeq(x.sig, 1, x.exp + 1)) + x.sig[x.exp + 2]


(***************************************************************************)
(* The pure functions: clampDimensions and the azimuth snapping and label  *)
(* of angleService, and the placement of an extracted video frame in its   *)
(* destination frame.  pure holds the function applied, its arguments and, *)
(* once applied, its result.                                               *)
(***************************************************************************)
Max(a, b) == IF a >= b THEN a ELSE b
Abs(a) == IF a < 0 THEN 0 - a ELSE a

\* clampDimensions without the final adjustment to even numbers
clampDimensionsNoEven(w, h, maxDim) ==
  IF w > maxDim \/ h > maxDim
    THEN LET scale == FDiv(maxDim, Max(w, h))
         IN <<JsRound(FMulInt(w, scale)), JsRound(FMulInt(h, scale))>>
    ELSE <<w, h>>

\* clampDimensions(w, h, maxDim) as <<width, height>>
clampDimensions(w, h, maxDim) ==
  LET scaled == IF w > maxDim \/ h > maxDim
                  THEN LET scale == FDiv(maxDim, Max(w, h))
                       IN <<JsRound(FMulInt(w, scale)),
                            JsRound(FMulInt(h, scale))>>
                  ELSE <<w, h>>
      width == IF scaled[1] % 2 = 0 THEN scaled[1] ELSE scaled[1] - 1
      height == IF scaled[2] % 2 = 0 THEN scaled[2] ELSE scaled[2] - 1
  IN <<width, height>>

\* the last frame of a generated video in the arrow's target frame.  The
\* offsets imageX = (frameW - scaledW) / 2 and imageY are kept by their
\* sign, which is the sign of frameW - scaledW and of frameH - scaledH
LastFramePlacement(frameW, frameH, videoWidth, videoHeight) ==
  LET scale == FMin(FDiv(frameW, videoWidth), FDiv(frameH, videoHeight))
      scaledW == FMulInt(videoWidth, scale)
      scaledH == FMulInt(videoHeight, scale)
  IN [w |-> scaledW, h |-> scaledH,
      x |-> FSubSign(FInt(frameW), scaledW),
      y |-> FSubSign(FInt(frameH), scaledH)]

\* the thumbnail of a merged video in the new frame, offsets as above
ThumbnailPlacement(frameW, frameH, videoWidth, videoHeight) ==
  LET scale == FMin(FDiv(frameW, videoWidth), FDiv(frameH, videoHeight))
      scaledW == FMulInt(videoWidth, scale)
      scaledH == FMulInt(videoHeight, scale)
      imageX == FSubSign(FInt(frameW), scaledW)
      imageY == FSubSign(FInt(frameH), scaledH)
  IN [w |-> scaledW, h |-> scaledH, x |-> imageX, y |-> imageY]

AZIMUTH_STEPS == <<0, 45, 90, 135, 180, 225, 270, 315>>

\* options.reduce(...) over options[1..n], the first option being the start
RECURSIVE SnapFold(_, _, _)
SnapFold(value, options, n) ==
  IF n = 1 THEN options[1]
  ELSE LET prev == SnapFold(value, options, n - 1)
           curr == options[n]
       IN IF Abs(curr - value) < Abs(prev - value) THEN curr ELSE prev

snapToNearest(value, options) == SnapFold(value, options, Len(options))

snapAzimuth(value) == snapToNearest(value, AZIMUTH_STEPS)

\* the thresholds are the odd multiples of 22.5, compared doubled
getAzimuthLabel(degrees) ==
  LET deg == ((degrees % 360) + 360) % 360
  IN IF 2 * deg <= 45 \/ 2 * deg > 675 THEN "Front"
     ELSE IF 2 * deg <= 135 THEN "Front-Right"
     ELSE IF 2 * deg <= 225 THEN "Right"
     ELSE IF 2 * deg <= 315 THEN "Back-Right"
     ELSE IF 2 * deg <= 405 THEN "Back"
     ELSE IF 2 * deg <= 495 THEN "Back-Left"
     ELSE IF 2 * deg <= 585 THEN "Left"
     ELSE "Front-Left"

\* the azimuths the camera widget produces: the dragged angle clamped to
\* 0..360 and rounded
AzimuthValues == 0..360

\* image and video sides: the small ones and the common ones
ImageSides ==
  (1..MaxSide) \cup {511, 512, 513, 767, 768, 769, 1023, 1024, 1025,
                     1080, 1920, 4000}
VideoSides == (1..MaxVideoSide) \cup {480, 720, 854, 1280}

\* the default frame, landscape and portrait
FrameSizes == {<<960, 540>>, <<540, 960>>}

PureCall(fn, args) == [fn |-> fn, args |-> args, done |-> FALSE, out |-> <<>>]

InitPure ==
  pure \in
    {PureCall("clampDimensions", <<w, h, MAX_DIMS[d]>>) :
       w \in ImageSides, h \in ImageSides, d \in 1..Len(MAX_DIMS)}
    \cup {PureCall(fn, <<f[1], f[2], vw, vh>>) :
            fn \in {"lastFrame", "thumbnail"}, f \in FrameSizes,
            vw \in VideoSides, vh \in VideoSides}
    \cup {PureCall("azimuth", <<v>>) : v \in AzimuthValues}

Applied(out) ==
  /\ ~pure.done
  /\ pure' = [pure EXCEPT !.done = TRUE, !.out = out]
  /\ UNCHANGED <<pollerVars, abandoned, pendingLeft, mergeVars, angleVars>>

\* generateAngleChange computes the dimensions of one request
ClampDimensions ==
  /\ pure.fn = "clampDimensions"
  /\ Applied(clampDimensions(pure.args[1], pure.args[2], pure.args[3]))

\* the poller places the last frame of a finished video
PlaceLastFrame ==
  /\ pure.fn = "lastFrame"
  /\ Applied(LastFramePlacement(pure.args[1], pure.args[2],
                                pure.args[3], pure.args[4]))

\* handleMergeVideos places the thumbnail of the merged video
PlaceThumbnail ==
  /\ pure.fn = "thumbnail"
  /\ Applied(ThumbnailPlacement(pure.args[1], pure.args[2],
                                pure.args[3], pure.args[4]))

\* the modal shows the label of camera.azimuth; generateAngleChange sends
\* the snapped azimuth
ShowAzimuth ==
  /\ pure.fn = "azimuth"
  /\ Applied([label |-> getAzimuthLabel(pure.args[1]),
              azimuth |-> snapAzimuth(pure.args[1])])

NextPure ==
  \/ ClampDimensions
  \/ PlaceLastFrame
  \/ PlaceThumbnail
  \/ ShowAzimuth

InitPureSpec ==
  /\ InitPoller
  /\ pendingLeft = [j \in Jobs |-> 0]
  /\ IdleMerge
  /\ IdleAngle
  /\ InitPure

SpecPure == InitPureSpec /\ [][NextPure]_vars

(***************************************************************************)
(* Properties of VideoGenerationManager                                    *)
(***************************************************************************)
\* the arrow of job j was on the canvas and has been removed from it
Removed(j) == ~arrows[j].exists /\ arrows[j] # NoArrow

\* C1: the completion side effects of a job (the write of done / videoUrl
\* onto the edge, the start of the context extraction, the start of the
\* last-frame extraction) are applied at most once, and exactly once when
\* the job is recorded as completed.
C1_CompletionOnce ==
  \A j \in Jobs :
    /\ doneWrites[j] <= 1
    /\ contextExtractions[j] <= 1
    /\ frameExtractions[j] <= 1
    /\ j \in completedJobsRef => doneWrites[j] = 1

\* C2: once the arrow of a job is removed, no step applies a completion
\* side effect of the job or records it as completed, and every status
\* response with a parsed body that is handled leaves the job without a
\* polling loop and without a timer.
C2_AbandonOnDelete ==
  [][\A j \in Jobs : Removed(j) =>
       /\ doneWrites'[j] = doneWrites[j]
       /\ contextExtractions'[j] = contextExtractions[j]
       /\ frameExtractions'[j] = frameExtractions[j]
       /\ frameLoads'[j] <= frameLoads[j]
       /\ (j \in completedJobsRef' => j \in completedJobsRef)
       /\ \A body \in Bodies \ {"invalid"} :
            PollBody(j, body) => (j \notin intervalsRef' /\ timers'[j] = 0)]_vars

\* C2 witness: the loop of a removed arrow's job was abandoned, every status
\* request of the job has been handled and no side effect was applied
C2_Witness ==
  \E j \in Jobs :
    /\ Removed(j)
    /\ j \in abandoned
    /\ timers[j] = 0
    /\ fetching[j] = 0 /\ parsing[j] = 0
    /\ doneWrites[j] = 0

\* C3: once the polling loop of a job has been abandoned, no new polling
\* loop is started for the job.
C3_NoRestartAfterAbandon ==
  [][\A j \in abandoned :
       /\ timers'[j] <= timers[j]
       /\ j \in intervalsRef' => j \in intervalsRef]_vars

\* C4: a status response whose HTTP status is neither 200 nor 202 stops the
\* polling loop of the job and ends the handling: the completed set, the
\* edge and the side effects are unchanged and no body is parsed.
C4_NonAcceptedStatusAbandons ==
  [][\A j \in Jobs, http \in HttpStatuses \ {200, 202} :
       PollResponse(j, http) =>
         /\ j \notin intervalsRef'
         /\ timers'[j] = 0
         /\ parsing'[j] = parsing[j]
         /\ UNCHANGED <<completedJobsRef, arrows, doneWrites,
                        contextExtractions, frameExtractions>>]_vars

\* C5: a status response with body status error stops the polling loop of
\* the job, so that no further status request is sent for it.
C5_ErrorStopsPolling ==
  [][\A j \in Jobs :
       (HasCurrentArrow(j) /\ PollBody(j, "error")) =>
         (j \notin intervalsRef' /\ timers'[j] = 0)]_vars

\* C6: under the scripted backend every pending job eventually has no
\* polling loop, is recorded as completed and has its edge done with the
\* video URL; from then on this stays so, and no status request is sent for
\* a job once it is recorded as completed.
Completed(j) ==
  /\ j \notin intervalsRef
  /\ timers[j] = 0
  /\ j \in completedJobsRef
  /\ arrows[j].status = "done"
  /\ arrows[j].videoUrl = UrlOf(j)

C6_EventuallyCompleted ==
  /\ \A j \in Jobs :
       (HasCurrentArrow(j) /\ arrows[j].status = "pending") ~> Completed(j)
  /\ [][\A j \in Jobs : Completed(j) => Completed(j)']_vars
  /\ [][\A j \in completedJobsRef : fetching'[j] <= fetching[j]]_vars

\* C6 witness: a job completed after the backend answered pending at least
\* once, with its requests all handled
C6_Witness ==
  \E j \in Jobs :
    /\ Completed(j)
    /\ arrows[j].timer > 0
    /\ pendingLeft[j] = 0
    /\ fetching[j] = 0 /\ parsing[j] = 0

\* C7: a job recorded as completed stays recorded as completed, across the
\* cleanup of the effect too.
C7_CompletedPersists ==
  [][\A j \in completedJobsRef : j \in completedJobsRef']_vars

\* C8: the cleanup leaves no checker timer, no polling timer and an empty
\* loop map, and while the effect is torn down no status request is sent.
C8_TeardownCancelsAll ==
  [][~checkInterval' =>
       /\ \A j \in 0..MaxJobs : timers'[j] = 0
       /\ intervalsRef' = {}
       /\ \A j \in Jobs : fetching'[j] <= fetching[j]]_vars

\* C8 witness: the effect is torn down while a job is pending on the canvas
\* with a status request in flight
C8_Witness ==
  /\ ~checkInterval
  /\ \E j \in Jobs :
       /\ HasCurrentArrow(j)
       /\ arrows[j].status = "pending"
       /\ fetching[j] > 0

(***************************************************************************)
(* Properties of handleMergeVideos                                         *)
(***************************************************************************)
\* the frames on the way from the root to frame f, f included
RECURSIVE UpTo(_)
UpTo(f) == IF f = 0 THEN {} ELSE {f} \cup UpTo(nodes[f].parent)

\* the arrows on the way from the root to frame f that are done and carry a
\* video URL (an arrow is named by the frame it ends at)
DoneArrowsTo(f) ==
  {a \in UpTo(f) : /\ nodes[a].parent # 0
                    /\ nodes[a].status = "done"
                    /\ nodes[a].videoUrl # 0}

\* the k-th arrow of S from the root: arrows further from the root end at
\* later frames
KthArrow(S, k) == CHOOSE a \in S : Cardinality({b \in S : b < a}) = k - 1

\* C9: the list sent to the merge call holds exactly the video URLs of the
\* done arrows with a URL on the path from the root to the selected frame,
\* one element each, in root-to-leaf order.
C9_MergeListIsDoneUrlsInOrder ==
  mergeCall # <<>> =>
    /\ Len(mergeCall) = Cardinality(DoneArrowsTo(mergeFrom))
    /\ \A k \in 1..Len(mergeCall) :
         mergeCall[k] = nodes[KthArrow(DoneArrowsTo(mergeFrom), k)].videoUrl

\* C9 witness: a merge call whose path holds an arrow that contributes
\* nothing (pending, error or done without URL)
C9_Witness ==
  /\ mergeCall # <<>>
  /\ \E a \in UpTo(mergeFrom) :
       /\ nodes[a].parent # 0
       /\ a \notin DoneArrowsTo(mergeFrom)
       /\ \E b, c \in DoneArrowsTo(mergeFrom) : b < a /\ a < c

\* C10: a call of handleMergeVideos for a selected frame with fewer than two
\* done arrows with a URL on its path (an empty path included) shows a
\* validation toast and sends no merge request, creates no frame or arrow
\* and leaves the merging flag alone.
C10_TooFewRejected ==
  [][(/\ HandleMergeVideos
      /\ editorRef
      /\ selected # 0
      /\ Cardinality(DoneArrowsTo(selected)) < 2) =>
       /\ toast' \in ValidationToasts
       /\ UNCHANGED <<mergeCall, mergeCalls, nodes, isMerging>>]_vars

\* C10 witness: the call was rejected for a frame with exactly one done
\* arrow with a URL on its path
C10_Witness ==
  /\ toast = "At least 2 videos are required for merging."
  /\ selected # 0
  /\ Cardinality(DoneArrowsTo(selected)) = 1
  /\ mergeCalls = 0
  /\ ~isMerging

(***************************************************************************)
(* Properties of angleService                                              *)
(***************************************************************************)
\* the sum of the requests an invocation has sent over the caps
RECURSIVE RequestsUpTo(_, _)
RequestsUpTo(c, d) == IF d = 0 THEN 0 ELSE c.requests[d] + RequestsUpTo(c, d - 1)

TotalRequests(c) == RequestsUpTo(c, Len(MAX_DIMS))

\* the running (or last) gradioPredict of c ended with a successful attempt
\* after attempts that all failed with the quota exhausted
QuotaThenSuccess(c) == c.lastRes = {"ok"} /\ c.quotaOnly

\* C11: with no other invocation running, when the first k attempts of
\* gradioPredict fail with the quota exhausted and attempt k+1 succeeds,
\* k+1 attempts were made, and attempt i used the credential at index
\* (c + i - 1) mod n, c being the cursor when gradioPredict started.
C11_RotationOrder ==
  \A p \in Calls :
    QuotaThenSuccess(calls[p]) =>
      /\ Len(calls[p].log) <= totalTokens
      /\ calls[p].attempt = Len(calls[p].log) - 1
      /\ \A i \in 1..Len(calls[p].log) :
           calls[p].log[i] = (calls[p].startCursor + i - 1) % totalTokens

\* C11 witness: three credentials, cursor 0, two quota failures, then the
\* success: the indices 0, 1, 2
C11_Witness ==
  /\ totalTokens = 3
  /\ calls[1].pc = "returned"
  /\ calls[1].startCursor = 0
  /\ calls[1].quotaOnly
  /\ calls[1].log = <<0, 1, 2>>

\* C12: when every request at the caps 1024 and 768 fails with a runtime
\* error of the worker and the request at cap 512 succeeds, the invocation
\* has sent exactly 3 requests, one per cap.
C12_OneRequestPerCap ==
  \A p \in Calls :
    (/\ calls[p].pc = "returned"
     /\ calls[p].maxDim = 3
     /\ calls[p].onlyOOM
     /\ calls[p].requests[3] = 1)
    => /\ TotalRequests(calls[p]) = 3
       /\ \A d \in 1..Len(MAX_DIMS) : calls[p].requests[d] = 1

\* C13: when an attempt fails with an error that is neither quota
\* exhausted nor a runtime error, gradioPredict makes no further attempt
\* and leaves the cursor where it is.
C13_OtherFailurePropagates ==
  [][\A p \in Calls :
       AttemptFails(p, {}) =>
         /\ calls'[p].pc = "threw"
         /\ Len(calls'[p].log) = Len(calls[p].log)
         /\ currentTokenIndex' = currentTokenIndex]_vars

\* C14: when the try of generateAngleChange at some cap fails with an
\* error that is not a runtime error of the worker, the invocation fails
\* with that error in the same step, at the same cap and without a further
\* request.
C14_NonTransientStops ==
  [][\A p \in Calls :
       (/\ Active(calls[p])
        /\ calls'[p].genLastError # calls[p].genLastError
        /\ RuntimePhrase \notin calls'[p].genLastError.msg)
       => /\ calls'[p].pc = "threw"
          /\ calls'[p].error = calls'[p].genLastError
          /\ calls'[p].maxDim = calls[p].maxDim
          /\ calls'[p].requests = calls[p].requests
          /\ \A d \in (calls[p].maxDim + 1)..Len(MAX_DIMS) :
               calls'[p].requests[d] = 0]_vars

\* C14 witness: after a runtime error at cap 1024, every credential is
\* out of quota at cap 768, and no request was sent at cap 512
C14_Witness ==
  /\ totalTokens >= 2
  /\ calls[1].pc = "threw"
  /\ calls[1].maxDim = 2
  /\ calls[1].error = calls[1].genLastError
  /\ calls[1].error.msg = {"All HF tokens failed", QuotaPhrase}
  /\ calls[1].requests[2] = totalTokens
  /\ calls[1].requests[3] = 0

\* C15: an invocation sends at most poolSize requests at each cap and at
\* most poolSize * 3 in total, and, every external request returning or
\* failing, it settles.
C15_BoundedAndTerminates ==
  /\ [](\A p \in Calls :
          /\ \A d \in 1..Len(MAX_DIMS) : calls[p].requests[d] <= totalTokens
          /\ TotalRequests(calls[p]) <= totalTokens * Len(MAX_DIMS))
  /\ \A p \in Calls : Active(calls[p]) ~> ~Active(calls[p])

\* C15 witness: an invocation that sent poolSize requests at each cap
C15_Witness ==
  /\ totalTokens >= 2
  /\ calls[1].pc = "threw"
  /\ \A d \in 1..Len(MAX_DIMS) : calls[1].requests[d] = totalTokens

\* C16: with an empty pool, the invocation fails with the configuration
\* error in the step that calls gradioPredict: no connection, no request,
\* the cursor and the cache as they were, the cap still the first one.
C16_EmptyPoolFailsAtOnce ==
  [][\A p \in Calls :
       (ImageLoaded(p) /\ totalTokens = 0) =>
         /\ calls'[p].pc = "threw"
         /\ calls'[p].error = ConfigError
         /\ calls'[p].maxDim = 1
         /\ calls'[p].log = <<>>
         /\ TotalRequests(calls'[p]) = 0
         /\ currentTokenIndex' = currentTokenIndex
         /\ gradioClients' = gradioClients]_vars

\* C16 witness: an invocation failed with the configuration error
C16_Witness ==
  /\ totalTokens = 0
  /\ calls[1].pc = "threw"
  /\ calls[1].error = ConfigError
  /\ gradioClients = {}

\* C17: the error that says that all credentials failed is raised after
\* poolSize attempts and carries the error of the last of them.
C17_AggregateHasLastCause ==
  \A p \in Calls :
    (calls[p].pc = "threw" /\ "All HF tokens failed" \in calls[p].error.msg)
    => /\ Len(calls[p].log) = totalTokens
       /\ calls[p].error.at = totalTokens
       /\ calls[p].error.msg = {"All HF tokens failed"} \cup calls[p].lastRes

\* C17 witness: all credentials failed, the first and the last of them
\* with different errors
C17_Witness ==
  /\ totalTokens >= 2
  /\ calls[1].pc = "threw"
  /\ "All HF tokens failed" \in calls[1].error.msg
  /\ calls[1].lastRes = {}
  /\ ~calls[1].onlyOOM

\* C20: when invocations overlap, each of them attempts every credential
\* at most once, and the one that reports that all credentials failed has
\* attempted every credential of the pool.
C20_OverlapTriesEachOnce ==
  \A p \in Calls :
    /\ \A i, k \in 1..Len(calls[p].log) :
         i # k => calls[p].log[i] # calls[p].log[k]
    /\ (calls[p].pc = "threw" /\ "All HF tokens failed" \in calls[p].error.msg)
       => {calls[p].log[i] : i \in 1..Len(calls[p].log)}
            = 0..(totalTokens - 1)

C18_DoneStepIsAtomic ==
  [][\A j \in Jobs :
       (PollBody(j, "done_url") /\ HasCurrentArrow(j)) =>
         /\ j \in completedJobsRef'
         /\ j \notin intervalsRef'
         /\ timers'[j] = 0
         /\ arrows'[j] = [arrows[j] EXCEPT !.status = "done",
                                            !.videoUrl = UrlOf(j)]]_vars

\* C18 witness: a job completed by one done response, with the timer and
\* the start time of its edge kept
C18_Witness ==
  \E j \in Jobs :
    /\ doneWrites[j] = 1
    /\ j \in completedJobsRef
    /\ arrows[j].status = "done"
    /\ arrows[j].videoUrl = UrlOf(j)
    /\ arrows[j].timer > 0
    /\ arrows[j].startTime > 0
    /\ arrows[j].jobId = j

\* C19: a successful merge adds one frame and one arrow to the canvas: the
\* arrow runs from the frame the merge was started from to the new frame,
\* has status done and the merged URL, and the graph rebuilt afterwards
\* knows the new frame.
C19_MergeSplicesOneNode ==
  [][MergeSucceeds =>
       /\ Len(nodes') = Len(nodes) + 1
       /\ SubSeq(nodes', 1, Len(nodes)) = nodes
       /\ mergeFrom \in 1..Len(nodes)
       /\ nodes'[Len(nodes')] = [parent |-> mergeFrom, status |-> "done",
                                 videoUrl |-> MergedUrl]
       /\ graph' = Len(nodes')]_vars

\* C19 witness: the merged frame is on the canvas and in the graph, the
\* selection having moved while the merge ran
C19_Witness ==
  /\ Len(nodes) = MaxFrames + 1
  /\ nodes[Len(nodes)].videoUrl = MergedUrl
  /\ nodes[Len(nodes)].status = "done"
  /\ graph = Len(nodes)
  /\ selected # nodes[Len(nodes)].parent
  /\ ~isMerging

\* the bodies that are no done with a video URL and that parse
NonTerminalBodies == {"pending", "error", "done_nourl"}

\* C22: the step that handles a non-terminal response for a job whose edge
\* exists changes the edge if and only if the whole number of elapsed
\* seconds differs from the timer of the edge; the change sets the timer
\* field and nothing else, and the loops, their timers and the completed
\* set stay as they are.
C22_TimerWriteOnlyOnChange ==
  [][\A j \in Jobs : \A body \in NonTerminalBodies :
       (PollBody(j, body) /\ HasCurrentArrow(j)) =>
         /\ arrows' = [arrows EXCEPT ![j].timer = ElapsedSeconds(j)]
         /\ (arrows' # arrows) <=> (arrows[j].timer # ElapsedSeconds(j))
         /\ UNCHANGED <<intervalsRef, timers, completedJobsRef>>]_vars

\* C22 witness: a pending job whose edge shows one elapsed second or more
C22_Witness ==
  \E j \in Jobs :
    /\ arrows[j].status = "pending"
    /\ arrows[j].jobId = j
    /\ arrows[j].exists
    /\ arrows[j].timer > 0
    /\ arrows[j].timer = now - arrows[j].startTime
    /\ j \in intervalsRef
    /\ j \notin completedJobsRef

\* C25: while the effect is torn down, the handling of a status response
\* changes no edge, records no completion and starts no completion side
\* effect.
C25_NoEffectAfterTeardown ==
  [][\A j \in Jobs : \A body \in Bodies :
       (~checkInterval /\ PollBody(j, body)) =>
         /\ arrows' = arrows
         /\ completedJobsRef' = completedJobsRef
         /\ UNCHANGED sideEffects]_vars

\* C26: an edge that has status done and stays on the canvas keeps status
\* done and its video URL in every step.
C26_DoneIsFinal ==
  [][\A j \in Jobs :
       (arrows[j].exists /\ arrows'[j].exists /\ arrows[j].status = "done") =>
         /\ arrows'[j].status = "done"
         /\ arrows'[j].videoUrl = arrows[j].videoUrl]_vars

\* C26 witness: the edge is done while a response of an earlier request
\* is still to be handled, and its timer is behind the elapsed seconds
C26_Witness ==
  \E j \in Jobs :
    /\ arrows[j].exists
    /\ arrows[j].status = "done"
    /\ arrows[j].videoUrl = UrlOf(j)
    /\ parsing[j] > 0
    /\ arrows[j].timer < now - arrows[j].startTime

\* C27: a failing merge request leaves the frames, the arrows and the
\* graph as they were; the merging flag is reset by the failure and by the
\* success, and by nothing else.
C27_FailedMergeChangesNothing ==
  [][/\ MergeFails => (nodes' = nodes /\ graph' = graph /\ ~isMerging')
     /\ MergeSucceeds => ~isMerging'
     /\ (isMerging /\ ~isMerging') => (MergeFails \/ MergeSucceeds)]_vars

\* C27 witness: the merge request has failed
C27_Witness ==
  /\ toast = "Failed to merge videos"
  /\ ~isMerging
  /\ mergeCalls = 1
  /\ mergeCall = <<>>
  /\ Len(nodes) = MaxFrames
  /\ graph = MaxFrames

(***************************************************************************)
(* Properties of the pure functions                                        *)
(***************************************************************************)
\* C23: for positive integer sides and a cap of MAX_DIMS, clampDimensions
\* returns an even width and an even height, both at most the cap when a
\* side of the source exceeds the cap, and each at most the source's side
\* otherwise.
C23_ClampEvenWithinCap ==
  (pure.fn = "clampDimensions" /\ pure.done) =>
    LET w == pure.args[1]
        h == pure.args[2]
        maxDim == pure.args[3]
        width == pure.out[1]
        height == pure.out[2]
    IN /\ width \in Nat /\ height \in Nat
       /\ width % 2 = 0 /\ height % 2 = 0
       /\ IF w > maxDim \/ h > maxDim
            THEN width <= maxDim /\ height <= maxDim
            ELSE width <= w /\ height <= h

\* a source larger than the cap was scaled: its longer side landed on the
\* cap and its shorter side, rounded to an odd number, was lowered by one
C23_Witness ==
  /\ pure.fn = "clampDimensions" /\ pure.done
  /\ pure.args[1] > pure.args[3]
  /\ pure.out[1] = pure.args[3]
  /\ pure.out[2] # clampDimensionsNoEven(pure.args[1], pure.args[2],
                                         pure.args[3])[2]

\* C24: the placed frame lies inside the destination on both axes (neither
\* offset is negative) and exactly fills the destination on at least one
\* axis, in the poller's placement and in the merger's alike.
C24_PlacementFitsAndFills ==
  (pure.fn \in {"lastFrame", "thumbnail"} /\ pure.done) =>
    /\ pure.out.x >= 0
    /\ pure.out.y >= 0
    /\ \/ pure.out.w = FInt(pure.args[1])
       \/ pure.out.h = FInt(pure.args[2])

\* C29: for sides of at least 1 and a cap of MAX_DIMS, clampDimensions
\* returns a width and a height that are both strictly positive.
C29_ClampNeverZero ==
  (pure.fn = "clampDimensions" /\ pure.done) =>
    (pure.out[1] > 0 /\ pure.out[2] > 0)

\* C30: for every azimuth the widget produces, the label shown is the label
\* of the snapped azimuth that is sent.
C30_LabelMatchesSentAzimuth ==
  (pure.fn = "azimuth" /\ pure.done) =>
    pure.out.label = getAzimuthLabel(pure.out.azimuth)

====
